---- MODULE Spec2Model ----
(***************************************************************************)
(* A model of ModCacheX (src/ModCacheX.py): the cache inventory, its       *)
(* display list, and the handlers that scan, filter, sort, import, export  *)
(* and delete mod archives.                                                *)
(*                                                                         *)
(* Representation.                                                         *)
(*  - A Python str is a sequence of one-character strings.                 *)
(*  - A Python int that holds a byte count is unbounded; it is kept as a   *)
(*    little-endian sequence of base-1024 digits with no leading zero      *)
(*    digit (zero is << >>), because byte counts reach 1024^5 and beyond.  *)
(*  - A path is a record [dir, name]: dir is the sequence of directory     *)
(*    components, name the base name.                                      *)
(***************************************************************************)
EXTENDS Integers, Sequences, FiniteSets, TLC

VARIABLES
    cache_dir,       \* self.cache_dir
    max_cache_size,  \* self.max_cache_size, in MB
    config_file,     \* what modcachex.ini holds
    disk,            \* the directories and their files
    mods,            \* self.mods
    selected_mods,   \* self.selected_mods
    mod_tree,        \* the rows of self.mod_tree, top to bottom
    status_var,      \* self.status_var
    messagebox,      \* the error box the last handler call showed, if any
    dialogs,         \* the last import dialog: files picked, answers given
    fmt_arg,         \* the argument of a format_size call on its own
    fmt_out          \* and what it returned

vars == <<cache_dir, max_cache_size, config_file, disk, mods, selected_mods,
          mod_tree, status_var, messagebox, dialogs, fmt_arg, fmt_out>>

(***************************************************************************)
(* Bounds of the model.                                                    *)
(***************************************************************************)
\* Most source files handed to one import.
MaxImport == 2
\* Most files in the cache directory's top level when a scan is modelled on
\* its own.
MaxScan == 2
\* Most base-1024 digits of a byte count given to format_size on its own.
MaxDigits == 6

(***************************************************************************)
(* Sequences.                                                              *)
(***************************************************************************)
Range(s) == {s[i] : i \in 1..Len(s)}

SeqsUpTo(S, n) == UNION {[1..k -> S] : k \in 0..n}

(***************************************************************************)
(* Python str: lower(), strip(), in, startswith/endswith, and < .          *)
(***************************************************************************)
\* Unicode code points of the characters the model uses. "U+672A" and "U+77E5"
\* stand for the two characters of the version column's placeholder text.
Ord(c) ==
    CASE c = " " -> 32  [] c = "$" -> 36  [] c = "." -> 46
      [] c = "1" -> 49  [] c = "2" -> 50  [] c = "9" -> 57
      [] c = "A" -> 65  [] c = "B" -> 66  [] c = "J" -> 74  [] c = "R" -> 82
      [] c = "a" -> 97  [] c = "b" -> 98  [] c = "j" -> 106 [] c = "n" -> 110
      [] c = "r" -> 114 [] c = "t" -> 116 [] c = "v" -> 118 [] c = "x" -> 120
      [] c = "{" -> 123 [] c = "}" -> 125
      [] c = "U+672A" -> 26410 [] c = "U+77E5" -> 30693

LowerChar(c) ==
    CASE c = "A" -> "a" [] c = "B" -> "b" [] c = "J" -> "j" [] c = "R" -> "r"
      [] OTHER -> c

lower(s) == [i \in 1..Len(s) |-> LowerChar(s[i])]

RECURSIVE lstrip(_)
lstrip(s) == IF s # <<>> /\ Head(s) = " " THEN lstrip(Tail(s)) ELSE s

RECURSIVE rstrip(_)
rstrip(s) ==
    IF s # <<>> /\ s[Len(s)] = " " THEN rstrip(SubSeq(s, 1, Len(s) - 1)) ELSE s

strip(s) == rstrip(lstrip(s))

\* t in s
contains(s, t) ==
    \E i \in 1..(Len(s) - Len(t) + 1) : SubSeq(s, i, i + Len(t) - 1) = t

startswith(s, t) == Len(t) <= Len(s) /\ SubSeq(s, 1, Len(t)) = t

endswith(s, t) == Len(t) <= Len(s) /\ SubSeq(s, Len(s) - Len(t) + 1, Len(s)) = t

\* s < t, by code point, a proper prefix being smaller
RECURSIVE StrLt(_, _)
StrLt(s, t) ==
    IF t = <<>> THEN FALSE
    ELSE IF s = <<>> THEN TRUE
    ELSE IF Ord(Head(s)) # Ord(Head(t)) THEN Ord(Head(s)) < Ord(Head(t))
    ELSE StrLt(Tail(s), Tail(t))

(***************************************************************************)
(* Python int byte counts, base 1024.                                      *)
(***************************************************************************)
Kilo == 1024

BigZero == <<>>

\* b >= 1024
BigGeKilo(b) == Len(b) >= 2

\* b // 1024
BigFloorDivKilo(b) == IF b = <<>> THEN <<>> ELSE Tail(b)

\* b * 1024
BigMulKilo(b) == IF b = <<>> THEN <<>> ELSE <<0>> \o b

\* b * 1024^k
RECURSIVE BigShift(_, _)
BigShift(b, k) == IF k = 0 THEN b ELSE BigShift(BigMulKilo(b), k - 1)

\* a < b
RECURSIVE BigLt(_, _)
BigLt(a, b) ==
    IF Len(a) # Len(b) THEN Len(a) < Len(b)
    ELSE IF a = <<>> THEN FALSE
    ELSE IF a[Len(a)] # b[Len(b)] THEN a[Len(a)] < b[Len(b)]
    ELSE BigLt(SubSeq(a, 1, Len(a) - 1), SubSeq(b, 1, Len(b) - 1))

BigLe(a, b) == a = b \/ BigLt(a, b)

\* a + b + carry
RECURSIVE BigAddC(_, _, _)
BigAddC(a, b, carry) ==
    IF a = <<>> /\ b = <<>> THEN (IF carry = 0 THEN <<>> ELSE <<carry>>)
    ELSE LET x == IF a = <<>> THEN 0 ELSE Head(a)
             y == IF b = <<>> THEN 0 ELSE Head(b)
             s == x + y + carry
         IN  <<s % Kilo>> \o BigAddC(IF a = <<>> THEN <<>> ELSE Tail(a),
                                     IF b = <<>> THEN <<>> ELSE Tail(b),
                                     s \div Kilo)

BigAdd(a, b) == BigAddC(a, b, 0)

\* a small int as a byte count
RECURSIVE BigOf(_)
BigOf(n) == IF n = 0 THEN <<>> ELSE <<n % Kilo>> \o BigOf(n \div Kilo)

(***************************************************************************)
(* format_size, and sort_tree's convert_size that reads its output back.   *)
(***************************************************************************)
units == <<"B", "KB", "MB", "GB", "TB">>

\* The loop of format_size; unit_index counts from 0 as in the source.
\* A loop that goes on while size_bytes > 1024
RECURSIVE format_loop_gt(_, _)
format_loop_gt(size_bytes, unit_index) ==
    IF BigLt(<<0, 1>>, size_bytes) /\ unit_index < Len(units) - 1
    THEN format_loop_gt(BigFloorDivKilo(size_bytes), unit_index + 1)
    ELSE [num |-> size_bytes, unit |-> units[unit_index + 1]]

RECURSIVE format_loop(_, _)
format_loop(size_bytes, unit_index) ==
    IF BigGeKilo(size_bytes) /\ unit_index < Len(units) - 1
    THEN format_loop(BigFloorDivKilo(size_bytes), unit_index + 1)
    ELSE [num |-> size_bytes, unit |-> units[unit_index + 1]]

\* f"{size_bytes:.2f} {unit}": the text "<num>.00 <unit>", kept as the pair
\* that the text spells.
format_size(size_bytes) == format_loop(size_bytes, 0)

\* convert_size's units table, each factor 1024^k given by its k: 1, 1024,
\* 1024*1024, 1024*1024*1024. It has no "TB".
convert_units == [u \in {"B", "KB", "MB", "GB"} |->
                    CASE u = "B" -> 0 [] u = "KB" -> 1 [] u = "MB" -> 2 [] u = "GB" -> 3]

\* units[unit] raises KeyError for a unit that is not in the table.
convert_raises(size_str) == size_str.unit \notin DOMAIN convert_units

\* float(size) * units[unit]: the text spells a whole number, which float()
\* reads back exactly
convert_size(size_str) == BigShift(size_str.num, convert_units[size_str.unit])

(***************************************************************************)
(* The file system: directories hold their files in listing order (the     *)
(* order os.walk yields them); a new file goes to the end of the listing.  *)
(* A file is [name, size, readonly, zip, entries]: zip says whether        *)
(* zipfile.ZipFile can open it, entries is the container's name list with  *)
(* each entry's content. readonly is the read-only attribute (Windows):    *)
(* shutil.copy2 copies it with the file, and os.remove of the file or      *)
(* opening it for writing raises PermissionError. An entry name is a       *)
(* sequence of pieces such as <<"META-INF/", "mods", ".toml">>. An entry   *)
(* is [name, valid, doc]: valid is FALSE when decoding or toml.loads       *)
(* raises; doc is the parsed document, a function from keys to values, the *)
(* value of "mods" a list of tables.                                       *)
(***************************************************************************)
Root == <<".modcache">>
Sub == <<".modcache", "sub">>
NoDir == <<"nodir">>
Outside == <<"elsewhere">>

Dirs == {Root, Sub}

Subdirs(d) == IF d = Root THEN <<Sub>> ELSE <<>>

join(d, n) == [dir |-> d, name |-> n]

basename(p) == p.name

NoFile == [nofile |-> TRUE]

\* Python's None where a str may stand
None == <<"None">>

\* The file at path p, or NoFile
RECURSIVE FindEntry(_, _)
FindEntry(listing, n) ==
    IF listing = <<>> THEN NoFile
    ELSE IF Head(listing).name = n THEN Head(listing)
    ELSE FindEntry(Tail(listing), n)

FileAt(d, p) == IF p.dir \in DOMAIN d THEN FindEntry(d[p.dir], p.name) ELSE NoFile

\* os.path.exists
exists(d, p) == FileAt(d, p) # NoFile

\* The listing with file f written under its name: in place when the name
\* is there, at the end otherwise.
PutEntry(listing, f) ==
    IF \E i \in 1..Len(listing) : listing[i].name = f.name
    THEN [i \in 1..Len(listing) |->
            IF listing[i].name = f.name THEN f ELSE listing[i]]
    ELSE Append(listing, f)

RECURSIVE DropEntry(_, _)
DropEntry(listing, n) ==
    IF listing = <<>> THEN <<>>
    ELSE IF Head(listing).name = n THEN Tail(listing)
    ELSE <<Head(listing)>> \o DropEntry(Tail(listing), n)

\* for root, _, files in os.walk(top): every file path, top-down
RECURSIVE WalkDirs(_, _)
WalkDirs(d, tops) ==
    IF tops = <<>> THEN <<>>
    ELSE LET top == Head(tops)
             here == IF top \in DOMAIN d
                     THEN [i \in 1..Len(d[top]) |-> join(top, d[top][i].name)]
                     ELSE <<>>
         IN  here \o WalkDirs(d, Subdirs(top)) \o WalkDirs(d, Tail(tops))

walk(d, top) == WalkDirs(d, <<top>>)

(***************************************************************************)
(* parse_mod_version                                                       *)
(***************************************************************************)
\* [f for f in namelist if f.startswith("META-INF/") and f.endswith(".toml")]
RECURSIVE toml_files(_)
toml_files(entries) ==
    IF entries = <<>> THEN <<>>
    ELSE (IF startswith(Head(entries).name, <<"META-INF/">>)
             /\ endswith(Head(entries).name, <<".toml">>)
          THEN <<Head(entries)>> ELSE <<>>) \o toml_files(Tail(entries))

\* The version, or None; an exception anywhere yields None.
parse_mod_version(f) ==
    IF ~f.zip THEN None
    ELSE LET tf == toml_files(f.entries) IN
         IF tf = <<>> THEN None
         ELSE LET data == tf[1].doc IN
              IF ~tf[1].valid THEN None
              ELSE IF "mods" \in DOMAIN data /\ Len(data["mods"]) > 0
                      /\ "version" \in DOMAIN data["mods"][1]
                      /\ ~contains(data["mods"][1]["version"], <<"$">>)
                   THEN data["mods"][1]["version"]
                   ELSE None

(***************************************************************************)
(* get_cache_size and refresh_mod_list                                     *)
(***************************************************************************)
RECURSIVE SumSizes(_, _)
SumSizes(d, paths) ==
    IF paths = <<>> THEN BigZero
    ELSE BigAdd(FileAt(d, Head(paths)).size, SumSizes(d, Tail(paths)))

\* A scan that takes only the names ending in lower-case .jar
RECURSIVE jar_files_case_sensitive(_)
jar_files_case_sensitive(paths) ==
    IF paths = <<>> THEN <<>>
    ELSE (IF endswith(Head(paths).name, <<".", "j", "a", "r">>)
          THEN <<Head(paths)>> ELSE <<>>) \o jar_files_case_sensitive(Tail(paths))

\* if file.lower().endswith('.jar')
RECURSIVE jar_files(_)
jar_files(paths) ==
    IF paths = <<>> THEN <<>>
    ELSE (IF endswith(lower(Head(paths).name), <<".", "j", "a", "r">>)
          THEN <<Head(paths)>> ELSE <<>>) \o jar_files(Tail(paths))

\* A cache size that counts the archives only
jar_cache_size(d, dir) == SumSizes(d, jar_files(walk(d, dir)))

\* total_size of get_cache_size
get_cache_size(d, dir) == SumSizes(d, walk(d, dir))

\* ModInfo(jar_path, file_name[:-4], size, version)
ModInfo(d, jar_path) ==
    LET file_name == basename(jar_path)
        f == FileAt(d, jar_path)
    IN  [file_path |-> jar_path,
         name |-> SubSeq(file_name, 1, Len(file_name) - 4),
         size |-> f.size,
         version |-> parse_mod_version(f),
         file_name |-> file_name]

Unknown == <<"U+672A", "U+77E5">>

\* values=(mod.name, mod.version or "unknown", size_str, mod.file_path)
TreeRow(mod) ==
    [name |-> mod.name,
     version |-> IF mod.version = None \/ mod.version = <<>>
                 THEN Unknown ELSE mod.version,
     size |-> format_size(mod.size),
     path |-> mod.file_path]

TreeRows(ms) == [i \in 1..Len(ms) |-> TreeRow(ms[i])]

\* The budget test of refresh_mod_list: cache_size / (1024 * 1024) is exact
\* in floating point for the byte counts of the model, so the comparison is
\* that of the exact quotient.
over_budget(cache_size, max) ==
    max > 0 /\ BigLt(BigShift(BigOf(max), 2), cache_size)

\* refresh_mod_list: the new mods, mod_tree and status_var
refresh_mod_list(d, dir, max) ==
    IF dir \notin DOMAIN d
    THEN \* os.makedirs raises: the error is shown and the list stays empty
         [mods |-> <<>>, mod_tree |-> <<>>, status_var |-> [kind |-> "ready"]]
    ELSE LET jars == jar_files(walk(d, dir))
             cache_size == get_cache_size(d, dir)
             ms == [i \in 1..Len(jars) |-> ModInfo(d, jars[i])]
         IN  [mods |-> ms,
              mod_tree |-> TreeRows(ms),
              status_var |->
                 IF over_budget(cache_size, max)
                 THEN [kind |-> "warning", size |-> format_size(cache_size)]
                 ELSE [kind |-> "loaded", n |-> Len(ms),
                       size |-> format_size(cache_size)]]

(***************************************************************************)
(* sort_tree                                                               *)
(***************************************************************************)
\* key(a) <= key(b) for the column: the converted size, or the lower-cased
\* text
KeyLe(col, a, b) ==
    IF col = "size"
    THEN BigLe(convert_size(a.size), convert_size(b.size))
    ELSE ~StrLt(lower(b[col]), lower(a[col]))

\* An unstable insertion: x goes before the items whose key equals its own
RECURSIVE InsertBeforeTies(_, _, _)
InsertBeforeTies(col, sorted, x) ==
    IF sorted = <<>> THEN <<x>>
    ELSE IF KeyLe(col, x, Head(sorted))
         THEN <<x>> \o sorted
         ELSE <<Head(sorted)>> \o InsertBeforeTies(col, Tail(sorted), x)

\* list.sort(key=...) is stable: x goes after every item whose key is not
\* greater than its own.
RECURSIVE InsertByKey(_, _, _)
InsertByKey(col, sorted, x) ==
    IF sorted = <<>> THEN <<x>>
    ELSE IF KeyLe(col, Head(sorted), x)
         THEN <<Head(sorted)>> \o InsertByKey(col, Tail(sorted), x)
         ELSE <<x>> \o sorted

RECURSIVE SortByKey(_, _, _)
SortByKey(col, done, items) ==
    IF items = <<>> THEN done
    ELSE SortByKey(col, InsertByKey(col, done, Head(items)), Tail(items))

\* The display list after sort_tree(col). A size text whose unit
\* convert_size does not know raises KeyError inside items.sort, before any
\* item is moved.
sort_tree(tree, col) ==
    IF col = "size" /\ \E i \in 1..Len(tree) : convert_raises(tree[i].size)
    THEN tree
    ELSE SortByKey(col, <<>>, tree)

(***************************************************************************)
(* search_mods                                                             *)
(***************************************************************************)
\* search_mods without the version clause of its filter
matches_without_version(mod, search_text) ==
    \/ contains(lower(mod.name), search_text)
    \/ contains(lower(basename(mod.file_path)), search_text)

matches(mod, search_text) ==
    \/ contains(lower(mod.name), search_text)
    \/ (mod.version # None /\ mod.version # <<>>
        /\ contains(lower(mod.version), search_text))
    \/ contains(lower(basename(mod.file_path)), search_text)

RECURSIVE filtered_mods(_, _)
filtered_mods(ms, search_text) ==
    IF ms = <<>> THEN <<>>
    ELSE (IF matches(Head(ms), search_text) THEN <<Head(ms)>> ELSE <<>>)
         \o filtered_mods(Tail(ms), search_text)

(***************************************************************************)
(* The files a user can pick in the import dialog (they lie outside the    *)
(* cache directory), and the other inputs of the handlers.                 *)
(***************************************************************************)
B_JAR == <<"B", ".", "J", "A", "R">>
N_TXT == <<"n", ".", "t", "x", "t">>

\* B.JAR, 1 MiB: its first META-INF/*.toml declares version 1.2
Mod1 ==
    [name |-> B_JAR, size |-> BigOf(1048576), readonly |-> FALSE, zip |-> TRUE,
     entries |-> <<
        [name |-> <<"META-INF/", "MANIFEST", ".MF">>, valid |-> FALSE,
         doc |-> [x |-> 0]],
        [name |-> <<"META-INF/", "mods", ".toml">>, valid |-> TRUE,
         doc |-> [modLoader |-> <<"j">>,
                  mods |-> <<[modId |-> <<"a">>, version |-> <<"1", ".", "2">>],
                             [modId |-> <<"b">>, version |-> <<"9">>]>>]],
        [name |-> <<"META-INF/", "x", ".toml">>, valid |-> TRUE,
         doc |-> [mods |-> <<[version |-> <<"9">>]>>]] >>]

\* B.JAR, 2 MiB - 1, read-only: a .toml outside META-INF, then a
\* META-INF/*.toml whose version is the placeholder ${v}
Mod2 ==
    [name |-> B_JAR, size |-> BigOf(2097151), readonly |-> TRUE, zip |-> TRUE,
     entries |-> <<
        [name |-> <<"pack", ".toml">>, valid |-> TRUE,
         doc |-> [mods |-> <<[version |-> <<"9">>]>>]],
        [name |-> <<"META-INF/", "mods", ".toml">>, valid |-> TRUE,
         doc |-> [mods |-> <<[version |-> <<"$", "{", "v", "}">>]>>]] >>]

\* n.txt, 1 byte: not an archive
Note ==
    [name |-> N_TXT, size |-> BigOf(1), readonly |-> FALSE, zip |-> FALSE,
     entries |-> <<>>]

\* The files the import dialog offers: in the model of all handlers, and in
\* the model of import_mods on its own
SourceFiles == {Mod1, Mod2}
ImportSources == {Mod1, Mod2, Note}

\* What the user can type as cache directory and as size cap
CacheDirInputs == {Root, NoDir}
MaxCacheInputs == {<<>>, <<" ", "1">>, <<"a">>}

\* What the user can type in the search box
SearchInputs == {<<>>, <<" ">>, <<"B", " ">>, <<"1", ".">>, <<"x">>}

\* Where an export can go
ExportDirs == {Outside, Root, Sub}

Columns == {"name", "version", "size"}

(***************************************************************************)
(* int(max_cache_str) for the texts of the model: digits with blanks       *)
(* around them, anything else raising ValueError.                          *)
(***************************************************************************)
Digit(c) == CASE c = "1" -> 1 [] c = "2" -> 2 [] c = "9" -> 9 [] OTHER -> -1

RECURSIVE DigitsValue(_, _)
DigitsValue(s, acc) ==
    IF s = <<>> THEN acc ELSE DigitsValue(Tail(s), 10 * acc + Digit(Head(s)))

int_raises(s) ==
    strip(s) = <<>> \/ \E i \in 1..Len(strip(s)) : Digit(strip(s)[i]) < 0

int(s) == DigitsValue(strip(s), 0)

(***************************************************************************)
(* The loops of the bulk handlers. Each returns the disk it leaves and the *)
(* handler's counters.                                                     *)
(***************************************************************************)
\* shutil.copy2(src, dest_path) raises: no source file, no destination
\* directory, source and destination the same file, or a read-only file in
\* the way. Outside is a writable directory whose files are not kept.
copy_raises(d, src_path, f, dest_path) ==
    \/ f = NoFile
    \/ (dest_path.dir \notin DOMAIN d /\ dest_path.dir # Outside)
    \/ src_path = dest_path
    \/ (exists(d, dest_path) /\ FileAt(d, dest_path).readonly)

\* The disk after a copy that did not raise
copy2(d, f, dest_path) ==
    IF dest_path.dir \in DOMAIN d
    THEN [d EXCEPT ![dest_path.dir] = PutEntry(@, [f EXCEPT !.name = dest_path.name])]
    ELSE d

\* os.remove(path) raises: no such file, or a read-only file
remove_raises(d, path) == ~exists(d, path) \/ FileAt(d, path).readonly

remove(d, path) == [d EXCEPT ![path.dir] = DropEntry(@, path.name)]

Counters(d) ==
    [disk |-> d, success_count |-> 0, fail_count |-> 0, failed_files |-> <<>>,
     answers |-> <<>>, log |-> <<>>]

\* The answers messagebox.askyesnocancel can return: True, False, None
Answers == {"yes", "no", "cancel"}

\* An import whose loop goes on to the next file after a cancel
RECURSIVE import_loop_no_break(_, _, _, _)
import_loop_no_break(acc, dir, files, i) ==
    IF i > Len(files) THEN {acc}
    ELSE LET f == files[i]
             dest_path == join(dir, f.name)
             copied ==
                 IF copy_raises(acc.disk, join(Outside, f.name), f, dest_path)
                 THEN [acc EXCEPT !.fail_count = @ + 1,
                                  !.failed_files = Append(@, f.name),
                                  !.log = Append(@, "failed")]
                 ELSE [acc EXCEPT !.disk = copy2(@, f, dest_path),
                                  !.success_count = @ + 1,
                                  !.log = Append(@, "copied")]
             asked(answer) ==
                 CASE answer = "cancel" -> [acc EXCEPT !.log = Append(@, "cancelled")]
                   [] answer = "no" -> [acc EXCEPT !.log = Append(@, "skipped")]
                   [] OTHER -> copied
         IN  IF exists(acc.disk, dest_path)
             THEN UNION {import_loop_no_break(
                             [asked(answer) EXCEPT !.answers = Append(@, answer)],
                             dir, files, i + 1) : answer \in Answers}
             ELSE import_loop_no_break([copied EXCEPT !.answers = Append(@, "-")],
                                       dir, files, i + 1)

\* for file_path in files: ... of import_mods, from files[i] on. The user's
\* answer to each overwrite question is free, so the loop has a set of
\* outcomes. answers and log keep, per source file, the answer given ("-"
\* when not asked) and what the loop did with the file.
RECURSIVE import_loop(_, _, _, _)
import_loop(acc, dir, files, i) ==
    IF i > Len(files) THEN {acc}
    ELSE LET f == files[i]
             dest_path == join(dir, f.name)
             copied ==
                 IF copy_raises(acc.disk, join(Outside, f.name), f, dest_path)
                 THEN [acc EXCEPT !.fail_count = @ + 1,
                                  !.failed_files = Append(@, f.name),
                                  !.log = Append(@, "failed")]
                 ELSE [acc EXCEPT !.disk = copy2(@, f, dest_path),
                                  !.success_count = @ + 1,
                                  !.log = Append(@, "copied")]
         IN  IF exists(acc.disk, dest_path)
             THEN UNION {
                    IF answer = "cancel"
                    THEN {[acc EXCEPT !.answers = Append(@, answer),
                                      !.log = Append(@, "cancelled")]}
                    ELSE IF answer = "no"
                    THEN import_loop([acc EXCEPT !.answers = Append(@, answer),
                                                 !.log = Append(@, "skipped")],
                                     dir, files, i + 1)
                    ELSE import_loop([copied EXCEPT !.answers = Append(@, answer)],
                                     dir, files, i + 1)
                    : answer \in Answers}
             ELSE import_loop([copied EXCEPT !.answers = Append(@, "-")],
                              dir, files, i + 1)

\* for mod in self.selected_mods: ... of export_mods
RECURSIVE export_loop(_, _, _)
export_loop(acc, selected, directory) ==
    IF selected = <<>> THEN acc
    ELSE LET mod == Head(selected)
             dest_path == join(directory, basename(mod.file_path))
             f == FileAt(acc.disk, mod.file_path)
         IN  IF copy_raises(acc.disk, mod.file_path, f, dest_path)
             THEN export_loop([acc EXCEPT !.fail_count = @ + 1,
                                          !.failed_files = Append(@, mod.file_name)],
                              Tail(selected), directory)
             ELSE export_loop([acc EXCEPT !.disk = copy2(@, f, dest_path),
                                          !.success_count = @ + 1],
                              Tail(selected), directory)

\* A deletion that gives up at the first file it cannot remove
RECURSIVE delete_loop_abort(_, _)
delete_loop_abort(acc, selected) ==
    IF selected = <<>> THEN acc
    ELSE LET mod == Head(selected) IN
         IF remove_raises(acc.disk, mod.file_path)
         THEN [acc EXCEPT !.fail_count = @ + 1,
                          !.failed_files = Append(@, mod.file_name)]
         ELSE delete_loop_abort([acc EXCEPT !.disk = remove(@, mod.file_path),
                                            !.success_count = @ + 1],
                                Tail(selected))

\* for mod in self.selected_mods: ... of delete_selected_mods
RECURSIVE delete_loop(_, _)
delete_loop(acc, selected) ==
    IF selected = <<>> THEN acc
    ELSE LET mod == Head(selected) IN
         IF remove_raises(acc.disk, mod.file_path)
         THEN delete_loop([acc EXCEPT !.fail_count = @ + 1,
                                      !.failed_files = Append(@, mod.file_name)],
                          Tail(selected))
         ELSE delete_loop([acc EXCEPT !.disk = remove(@, mod.file_path),
                                      !.success_count = @ + 1],
                          Tail(selected))

\* The error box a bulk handler shows when fail_count > 0
NoBox == [title |-> "none"]

FailBox(title, done) ==
    IF done.fail_count > 0
    THEN [title |-> title, fail_count |-> done.fail_count,
          failed_files |-> done.failed_files]
    ELSE NoBox

(***************************************************************************)
(* The program: its state after construction, and one action per handler.  *)
(* A handler call that returns before it changes anything (a dialog        *)
(* closed, nothing selected, the deletion not confirmed) is a stuttering   *)
(* step.                                                                   *)
(***************************************************************************)
NoDialogs == [files |-> <<>>, answers |-> <<>>, log |-> <<>>]

\* __init__ on first launch: no settings file, an empty cache directory
Init ==
    /\ cache_dir = Root
    /\ max_cache_size = 0
    /\ config_file = [cache_dir |-> Root, max_cache_size |-> 0]
    /\ disk = [d \in Dirs |-> <<>>]
    /\ mods = refresh_mod_list(disk, cache_dir, max_cache_size).mods
    /\ mod_tree = refresh_mod_list(disk, cache_dir, max_cache_size).mod_tree
    /\ status_var = refresh_mod_list(disk, cache_dir, max_cache_size).status_var
    /\ selected_mods = <<>>
    /\ messagebox = NoBox
    /\ dialogs = NoDialogs
    /\ fmt_arg = BigZero
    /\ fmt_out = format_size(BigZero)

\* The refresh button: refresh_mod_list
RefreshModList ==
    LET r == refresh_mod_list(disk, cache_dir, max_cache_size) IN
    /\ UNCHANGED <<cache_dir, max_cache_size, config_file, disk, selected_mods,
                   dialogs, fmt_arg, fmt_out>>
    /\ mods' = r.mods
    /\ mod_tree' = r.mod_tree
    /\ status_var' = r.status_var
    /\ messagebox' = IF cache_dir \in DOMAIN disk THEN NoBox
                     ELSE [title |-> "makedirs"]

\* next((m for m in self.mods if m.file_path == mod_path), None), as a list
\* of no or one element
RECURSIVE find_mod(_, _)
find_mod(ms, mod_path) ==
    IF ms = <<>> THEN <<>>
    ELSE IF Head(ms).file_path = mod_path THEN <<Head(ms)>>
    ELSE find_mod(Tail(ms), mod_path)

\* The selected mods for the display rows at the positions in items
RECURSIVE select_loop(_, _, _, _)
select_loop(ms, tree, items, i) ==
    IF i > Len(tree) THEN <<>>
    ELSE (IF i \in items THEN find_mod(ms, tree[i].path) ELSE <<>>)
         \o select_loop(ms, tree, items, i + 1)

\* on_mod_select: the user changes the selection of the display list
OnModSelect ==
    \E items \in SUBSET (1..Len(mod_tree)) :
        /\ selected_mods' = select_loop(mods, mod_tree, items, 1)
        /\ status_var' = [kind |-> "selected", n |-> Len(selected_mods')]
        /\ messagebox' = NoBox
        /\ UNCHANGED <<cache_dir, max_cache_size, config_file, disk, mods,
                       mod_tree, dialogs, fmt_arg, fmt_out>>

\* sort_tree(col): a click on a column heading
SortTreeBy(col) ==
    /\ UNCHANGED <<cache_dir, max_cache_size, config_file, disk, mods,
                   selected_mods, status_var, dialogs, fmt_arg, fmt_out>>
    /\ messagebox' = NoBox
    /\ mod_tree' = sort_tree(mod_tree, col)

SortTree == \E col \in Columns : SortTreeBy(col)

\* search_mods: the search button, with the text of the search box
SearchModsFor(text) ==
    LET search_text == strip(lower(text))
        r == refresh_mod_list(disk, cache_dir, max_cache_size)
        found == filtered_mods(mods, search_text)
    IN  /\ UNCHANGED <<cache_dir, max_cache_size, config_file, disk,
                       selected_mods, dialogs, fmt_arg, fmt_out>>
        /\ IF search_text = <<>>
           THEN /\ mods' = r.mods
                /\ mod_tree' = r.mod_tree
                /\ status_var' = r.status_var
                /\ messagebox' = IF cache_dir \in DOMAIN disk THEN NoBox
                                 ELSE [title |-> "makedirs"]
           ELSE /\ mods' = mods
                /\ mod_tree' = TreeRows(found)
                /\ status_var' = [kind |-> "found", n |-> Len(found)]
                /\ messagebox' = NoBox

SearchMods == \E text \in SearchInputs : SearchModsFor(text)

\* import_mods: the files picked in the dialog, and one outcome of the loop
ImportModsOf(files, done) ==
    LET r == refresh_mod_list(done.disk, cache_dir, max_cache_size) IN
    /\ disk' = done.disk
    /\ mods' = r.mods
    /\ mod_tree' = r.mod_tree
    /\ status_var' = IF done.success_count > 0
                     THEN [kind |-> "imported", n |-> done.success_count]
                     ELSE r.status_var
    /\ messagebox' = FailBox("import", done)
    /\ UNCHANGED <<cache_dir, max_cache_size, config_file, selected_mods,
                   fmt_arg, fmt_out>>

\* import_mods with one file picked in the dialog
ImportMods ==
    \E f \in SourceFiles :
        \E done \in import_loop(Counters(disk), cache_dir, <<f>>, 1) :
            /\ ImportModsOf(<<f>>, done)
            /\ UNCHANGED dialogs

\* import_mods again, the dialog kept: what was picked, what was answered,
\* and what the loop did with each file
ImportModsTraced ==
    \E files \in SeqsUpTo(ImportSources, MaxImport) \ {<<>>} :
        \E done \in import_loop(Counters(disk), cache_dir, files, 1) :
            /\ ImportModsOf(files, done)
            /\ dialogs' = [files |-> files, answers |-> done.answers,
                           log |-> done.log]

\* export_mods: the selected mods copied to the directory picked
ExportModsTo(directory) ==
    LET done == export_loop(Counters(disk), selected_mods, directory) IN
    /\ selected_mods # <<>>
    /\ UNCHANGED <<cache_dir, max_cache_size, config_file, mods,
                   selected_mods, mod_tree, dialogs, fmt_arg, fmt_out>>
    /\ disk' = done.disk
    /\ status_var' = IF done.success_count > 0
                     THEN [kind |-> "exported", n |-> done.success_count]
                     ELSE [kind |-> "exporting", n |-> Len(selected_mods)]
    /\ messagebox' = FailBox("export", done)

ExportMods == \E directory \in ExportDirs : ExportModsTo(directory)

\* export_mods_as_zip: the bundle is written to a file outside the cache
\* directory; zipf.write raises for a selected file that is gone
ExportModsAsZip ==
    LET raised == \E i \in 1..Len(selected_mods) :
                     ~exists(disk, selected_mods[i].file_path)
    IN  /\ selected_mods # <<>>
        /\ status_var' = IF raised
                         THEN [kind |-> "packing", n |-> Len(selected_mods)]
                         ELSE [kind |-> "packed", n |-> Len(selected_mods)]
        /\ messagebox' = IF raised THEN [title |-> "zip"] ELSE NoBox
        /\ UNCHANGED <<cache_dir, max_cache_size, config_file, disk, mods,
                       selected_mods, mod_tree, dialogs, fmt_arg, fmt_out>>

\* delete_selected_mods, the deletion confirmed
DeleteSelectedMods ==
    LET done == delete_loop(Counters(disk), selected_mods)
        r == refresh_mod_list(done.disk, cache_dir, max_cache_size)
    IN  /\ selected_mods # <<>>
        /\ UNCHANGED <<cache_dir, max_cache_size, config_file, selected_mods,
                       dialogs, fmt_arg, fmt_out>>
        /\ disk' = done.disk
        /\ mods' = r.mods
        /\ mod_tree' = r.mod_tree
        /\ status_var' = IF done.success_count > 0
                         THEN [kind |-> "deleted", n |-> done.success_count]
                         ELSE r.status_var
        /\ messagebox' = FailBox("delete", done)

\* on_save_config, with the texts of the two settings fields
OnSaveConfigWith(cache_dir_var, max_cache_str) ==
    LET value == IF strip(max_cache_str) # <<>> THEN int(max_cache_str) ELSE 0
        r == refresh_mod_list(disk, cache_dir_var, value)
    IN  /\ UNCHANGED <<disk, selected_mods, dialogs, fmt_arg, fmt_out>>
        /\ cache_dir' = cache_dir_var
        /\ IF strip(max_cache_str) # <<>> /\ int_raises(max_cache_str)
           THEN \* ValueError: the error box is shown
                /\ messagebox' = [title |-> "ValueError"]
                /\ UNCHANGED <<max_cache_size, config_file, mods, mod_tree,
                               status_var>>
           ELSE /\ max_cache_size' = value
                /\ config_file' = [cache_dir |-> cache_dir_var,
                                   max_cache_size |-> value]
                /\ mods' = r.mods
                /\ mod_tree' = r.mod_tree
                /\ status_var' = [kind |-> "saved"]
                /\ messagebox' = IF cache_dir_var \in DOMAIN disk THEN NoBox
                                 ELSE [title |-> "makedirs"]

OnSaveConfig ==
    \E cache_dir_var \in CacheDirInputs, max_cache_str \in MaxCacheInputs :
        OnSaveConfigWith(cache_dir_var, max_cache_str)

Next ==
    \/ RefreshModList
    \/ OnModSelect
    \/ SortTree
    \/ SearchMods
    \/ ImportMods
    \/ ExportMods
    \/ ExportModsAsZip
    \/ DeleteSelectedMods
    \/ OnSaveConfig

Spec == Init /\ [][Next]_vars

(***************************************************************************)
(* import_mods on its own: one import after another of up to MaxImport     *)
(* files, the dialog kept.                                                 *)
(***************************************************************************)
NextImport == ImportModsTraced

SpecImport == Init /\ [][NextImport]_vars

(***************************************************************************)
(* refresh_mod_list on its own: the program started on a cache directory   *)
(* that already holds up to MaxScan files and one more in a subfolder,     *)
(* with a settings file that names the directory; then rescans and         *)
(* changes of the settings.                                                *)
(***************************************************************************)
A_JAR == <<"a", ".", "j", "a", "r">>
DOT_JAR == <<".", "j", "a", "r">>
JAR == <<"j", "a", "r">>

Tomls(doc) ==
    <<[name |-> <<"META-INF/", "mods", ".toml">>, valid |-> TRUE, doc |-> doc]>>

ScanFiles ==
    { Mod1, Mod2, Note,
      \* a.jar, empty, not a zip container
      [name |-> A_JAR, size |-> BigZero, readonly |-> FALSE, zip |-> FALSE,
       entries |-> <<>>],
      \* a.jar, 1 MiB - 1: the first META-INF/*.toml does not parse, the
      \* second declares a version
      [name |-> A_JAR, size |-> BigOf(1048575), readonly |-> FALSE, zip |-> TRUE,
       entries |-> <<[name |-> <<"META-INF/", "a", ".toml">>, valid |-> FALSE,
                      doc |-> [x |-> 0]]>>
                   \o Tomls([mods |-> <<[version |-> <<"9">>]>>])],
      \* a.jar: no .toml entry at all
      [name |-> A_JAR, size |-> BigOf(1), readonly |-> FALSE, zip |-> TRUE,
       entries |-> <<[name |-> <<"META-INF/", "MANIFEST", ".MF">>,
                      valid |-> FALSE, doc |-> [x |-> 0]]>>],
      \* a.jar: the version is the empty string
      [name |-> A_JAR, size |-> BigOf(1), readonly |-> FALSE, zip |-> TRUE,
       entries |-> Tomls([mods |-> <<[version |-> <<>>]>>])],
      \* B.JAR: no mods table
      [name |-> B_JAR, size |-> BigOf(1), readonly |-> FALSE, zip |-> TRUE,
       entries |-> Tomls([modLoader |-> <<"j">>])],
      \* B.JAR: mods[0] declares no version
      [name |-> B_JAR, size |-> BigOf(1048576), readonly |-> FALSE, zip |-> TRUE,
       entries |-> Tomls([mods |-> <<[modId |-> <<"a">>]>>])],
      \* .jar: an empty mods list
      [name |-> DOT_JAR, size |-> BigOf(1), readonly |-> FALSE, zip |-> TRUE,
       entries |-> Tomls([mods |-> <<>>])],
      \* .jar: a version with a $ inside
      [name |-> DOT_JAR, size |-> BigOf(1), readonly |-> FALSE, zip |-> TRUE,
       entries |-> Tomls([mods |-> <<[version |-> <<"1", "$">>]>>])],
      \* jar: a versioned container whose name does not end in .jar
      [name |-> JAR, size |-> BigOf(1048576), readonly |-> FALSE, zip |-> TRUE,
       entries |-> Tomls([mods |-> <<[version |-> <<"1", ".", "2">>]>>])] }

Listings(n) ==
    {l \in SeqsUpTo(ScanFiles, n) :
        \A i, j \in 1..Len(l) : l[i].name = l[j].name => i = j}

SubListings == {<<>>, <<Mod2>>, <<Note>>}

\* __init__ with a settings file and a cache directory already there
InitScan ==
    /\ cache_dir \in {Root, Sub}
    /\ max_cache_size = 0
    /\ config_file = [cache_dir |-> cache_dir, max_cache_size |-> max_cache_size]
    /\ disk \in {[d \in Dirs |-> IF d = Root THEN top ELSE sub] :
                    top \in Listings(MaxScan), sub \in SubListings}
    /\ mods = refresh_mod_list(disk, cache_dir, max_cache_size).mods
    /\ mod_tree = refresh_mod_list(disk, cache_dir, max_cache_size).mod_tree
    /\ status_var = refresh_mod_list(disk, cache_dir, max_cache_size).status_var
    /\ selected_mods = <<>>
    /\ messagebox = IF cache_dir \in DOMAIN disk THEN NoBox
                    ELSE [title |-> "makedirs"]
    /\ dialogs = NoDialogs
    /\ fmt_arg = BigZero
    /\ fmt_out = format_size(BigZero)

\* on_save_config, the cache directory set to either folder or to a
\* directory that cannot be made
ScanDirInputs == {Root, Sub, NoDir}

OnSaveConfigScan ==
    \E cache_dir_var \in ScanDirInputs, max_cache_str \in MaxCacheInputs :
        OnSaveConfigWith(cache_dir_var, max_cache_str)

NextScan ==
    \/ RefreshModList
    \/ OnSaveConfigScan

SpecScan == InitScan /\ [][NextScan]_vars

(***************************************************************************)
(* format_size on its own, over byte counts of up to MaxDigits base-1024   *)
(* digits, each digit 0, 1 or 1023.                                        *)
(***************************************************************************)
ByteCounts ==
    {b \in SeqsUpTo({0, 1, Kilo - 1}, MaxDigits) : b = <<>> \/ b[Len(b)] # 0}

FormatSize ==
    \E b \in ByteCounts :
        /\ fmt_arg' = b
        /\ fmt_out' = format_size(b)
        /\ UNCHANGED <<cache_dir, max_cache_size, config_file, disk, mods,
                       selected_mods, mod_tree, status_var, messagebox, dialogs>>

NextFormat == FormatSize

SpecFormat == Init /\ [][NextFormat]_vars

(***************************************************************************)
(* What the claims speak of, stated apart from the handlers' code.         *)
(***************************************************************************)
\* Every path on the disk, and the paths at or below a directory
AllPaths(d) ==
    UNION {{join(dir, d[dir][i].name) : i \in 1..Len(d[dir])} : dir \in DOMAIN d}

Under(dir, top) == Len(top) <= Len(dir) /\ \A k \in 1..Len(top) : dir[k] = top[k]

\* The file name ends in ".jar", letter case aside
EndsJarCI(name) ==
    /\ Len(name) >= 4
    /\ \A k \in 1..4 :
          LowerChar(name[Len(name) - 4 + k]) = <<".", "j", "a", "r">>[k]

\* The archive files at or below the directory top
ArchivePaths(d, top) ==
    {p \in AllPaths(d) : Under(p.dir, top) /\ EndsJarCI(p.name)}

InventoryPaths(ms) == {ms[i].file_path : i \in 1..Len(ms)}

\* The k-th smallest member of a set of positions
KthOf(idx, k) == CHOOSE i \in idx : Cardinality({j \in idx : j < i}) = k - 1

\* Position of the row or entry with path p in a list of rows or entries
RowPos(tree, p) == CHOOSE i \in 1..Len(tree) : tree[i].path = p
ModPos(ms, p) == CHOOSE i \in 1..Len(ms) : ms[i].file_path = p

\* sizeBytes of the Inventory entry a display row shows
EntrySize(ms, row) == ms[ModPos(ms, row.path)].size

\* Two rows compare equal on a column, as sort_tree compares them
SameKey(col, a, b) ==
    IF col = "size" THEN convert_size(a.size) = convert_size(b.size)
    ELSE lower(a[col]) = lower(b[col])

\* C1: after sort_tree("size") the display is in ascending order of the
\* entries' byte sizes.
C1_SizeSortOrdersBytes ==
    [][SortTreeBy("size") =>
         \A i \in 1..(Len(mod_tree') - 1) :
            BigLe(EntrySize(mods, mod_tree'[i]), EntrySize(mods, mod_tree'[i + 1]))]_vars

\* C10 as claimed: after a sort, rows that tie on the sorted column stand
\* in the order of the Inventory of the last rescan.
C10_TiesInScanOrder ==
    [][\A col \in Columns :
         SortTreeBy(col) =>
            \A i, j \in 1..Len(mod_tree') :
               (i < j /\ SameKey(col, mod_tree'[i], mod_tree'[j]))
                  => ModPos(mods, mod_tree'[i].path) < ModPos(mods, mod_tree'[j].path)]_vars

\* C10 as amended: after a sort, the display holds the same rows, in
\* non-descending key order, and rows that tie on the sorted column stand
\* in the order they had in the display before the call.
C10_TiesInDisplayOrder ==
    [][\A col \in Columns :
         (SortTreeBy(col) /\ ~(col = "size" /\ \E r \in Range(mod_tree) : convert_raises(r.size)))
         =>
            /\ Len(mod_tree') = Len(mod_tree)
            /\ Range(mod_tree') = Range(mod_tree)
            /\ \A i, j \in 1..Len(mod_tree') :
                  i < j =>
                     /\ KeyLe(col, mod_tree'[i], mod_tree'[j])
                     /\ SameKey(col, mod_tree'[i], mod_tree'[j])
                           => RowPos(mod_tree, mod_tree'[i].path)
                                 < RowPos(mod_tree, mod_tree'[j].path)]_vars

\* C10's case: two rows tie on the name, and an earlier sort has put them
\* in the order opposite to the Inventory's.
C10_Witness ==
    \E i, j \in 1..Len(mod_tree) :
        /\ i < j
        /\ SameKey("name", mod_tree[i], mod_tree[j])
        /\ ModPos(mods, mod_tree[i].path) > ModPos(mods, mod_tree[j].path)

\* An Inventory entry whose name, version (if present) or file name
\* contains t, letter case aside
Hit(m, t) ==
    \/ contains(lower(m.name), t)
    \/ (m.version # None /\ contains(lower(m.version), t))
    \/ contains(lower(m.file_path.name), t)

\* The subsequence of the entries of ms that contain t, in the order of ms
Matching(ms, t) ==
    LET idx == {i \in 1..Len(ms) : Hit(ms[i], t)}
    IN  [k \in 1..Cardinality(idx) |-> ms[KthOf(idx, k)]]

Succeeded(kind, st) == IF st.kind = kind THEN st.n ELSE 0
FailedNames(title, box) == IF box.title = title THEN box.failed_files ELSE <<>>

\* C3: a confirmed delete_selected_mods removes every selected file that is
\* on the disk and deletable, leaves every other file as it was, lists the
\* selected entries that are missing or undeletable, in selection order, as
\* failed, and its two counts add up to the number of selected entries.
C3_DeleteEachIndependently ==
    [][DeleteSelectedMods =>
         LET sel == selected_mods
             Fails(i) == \/ ~exists(disk, sel[i].file_path)
                         \/ FileAt(disk, sel[i].file_path).readonly
             FailIdx == {i \in 1..Len(sel) : Fails(i)}
         IN  /\ \A i \in (1..Len(sel)) \ FailIdx : ~exists(disk', sel[i].file_path)
             /\ \A i \in FailIdx :
                   FileAt(disk', sel[i].file_path) = FileAt(disk, sel[i].file_path)
             /\ \A p \in AllPaths(disk) \ InventoryPaths(sel) :
                   FileAt(disk', p) = FileAt(disk, p)
             /\ FailedNames("delete", messagebox')
                   = [k \in 1..Cardinality(FailIdx) |-> sel[KthOf(FailIdx, k)].file_name]
             /\ Succeeded("deleted", status_var') = Len(sel) - Cardinality(FailIdx)
             /\ Succeeded("deleted", status_var')
                   + Len(FailedNames("delete", messagebox')) = Len(sel)]_vars

\* C3's case: one deletion in which a file was removed and another failed
C3_Witness ==
    /\ status_var.kind = "deleted"
    /\ messagebox.title = "delete"
    /\ messagebox.fail_count >= 1

\* The greatest member of a non-empty set of positions
Last(idx) == CHOOSE i \in idx : \A j \in idx : j <= i

\* C4: import_mods takes the source files in order. A file whose name is
\* not in the cache directory is copied without a question, a file whose
\* name is there is asked about. After "yes" or no question the file is
\* copied and counted as succeeded, or counted as failed if the copy raised;
\* after "no" it is neither, and the next file is taken; after "cancel" the
\* loop ends. The cache directory then holds, under each name, the last
\* source copied under it, and otherwise what it held before: nothing is
\* rolled back, and no file after the cancel is copied.
\* (Every step of SpecImport is one call of import_mods; dialogs' holds the
\* files it was given, the answers, and what the loop did with each file.)
C4_ImportAccountsForEach ==
    [][  LET files == dialogs'.files
             ans == dialogs'.answers
             log == dialogs'.log
             n == Len(log)
             Dest(i) == join(cache_dir, files[i].name)
             Copies == {i \in 1..n : log[i] = "copied"}
             Failures == {i \in 1..n : log[i] = "failed"}
             Conflict(i) ==
                 \/ exists(disk, Dest(i))
                 \/ \E j \in Copies : j < i /\ files[j].name = files[i].name
         IN  /\ n <= Len(files)
             /\ Len(ans) = n
             /\ \A i \in 1..n :
                   /\ (ans[i] = "-") <=> ~Conflict(i)
                   /\ (ans[i] \in {"-", "yes"}) <=> (log[i] \in {"copied", "failed"})
                   /\ (ans[i] = "no") <=> (log[i] = "skipped")
                   /\ (ans[i] = "cancel") <=> (log[i] = "cancelled")
                   /\ (log[i] = "cancelled") => i = n
             /\ n < Len(files) => (n >= 1 /\ log[n] = "cancelled")
             /\ Succeeded("imported", status_var') = Cardinality(Copies)
             /\ FailedNames("import", messagebox')
                   = [k \in 1..Cardinality(Failures) |-> files[KthOf(Failures, k)].name]
             /\ \A p \in AllPaths(disk) \cup AllPaths(disk')
                          \cup {Dest(i) : i \in 1..Len(files)} :
                   LET C == {i \in Copies : Dest(i) = p}
                   IN  FileAt(disk', p) = IF C = {} THEN FileAt(disk, p)
                                          ELSE files[Last(C)]]_vars

\* C4's case: a cancel has ended an import before its last file, and that
\* file is not in the cache directory
C4_Witness ==
    LET n == Len(dialogs.log) IN
    /\ n >= 1
    /\ dialogs.log[n] = "cancelled"
    /\ n < Len(dialogs.files)
    /\ ~exists(disk, join(cache_dir, dialogs.files[n + 1].name))

\* The sum of the sizes of the files at a set of paths
RECURSIVE SumOver(_, _)
SumOver(d, S) ==
    IF S = {} THEN BigZero
    ELSE LET p == CHOOSE q \in S : TRUE
         IN  BigAdd(FileAt(d, p).size, SumOver(d, S \ {p}))

\* The total size of all files at or below the directory top
TotalBytes(d, top) == SumOver(d, {p \in AllPaths(d) : Under(p.dir, top)})

\* C5: a rescan ends with the budget warning exactly when max_cache_size > 0
\* and the total size of all files under the cache directory, archives or
\* not, is greater than max_cache_size * 1024 * 1024 bytes (so never when
\* max_cache_size = 0), and it leaves every file on the disk as it was.
C5_WarningIffOverBudget ==
    [][RefreshModList =>
         /\ disk' = disk
         /\ (status_var'.kind = "warning")
               <=> /\ max_cache_size > 0
                   /\ BigLt(BigOf(max_cache_size * 1024 * 1024),
                            TotalBytes(disk, cache_dir))]_vars

\* C5's case: a rescan has raised the warning on a cache directory whose
\* archives alone are within the budget
C5_Witness ==
    /\ status_var.kind = "warning"
    /\ max_cache_size > 0
    /\ BigLe(SumOver(disk, ArchivePaths(disk, cache_dir)),
             BigOf(max_cache_size * 1024 * 1024))

\* A metadata entry of an archive: a name under META-INF/ that ends in .toml
IsMetadata(name) ==
    Len(name) >= 1 /\ name[1] = "META-INF/" /\ name[Len(name)] = ".toml"

\* The version an archive file declares: that of mods[0] in its first
\* metadata entry, if that entry parses, has a non-empty mods list whose
\* first element has a version, and the version has no $ in it. (Declared
\* versions are strings, as in the data model of the specification.)
DeclaredVersion(f) ==
    LET meta == {i \in 1..Len(f.entries) : IsMetadata(f.entries[i].name)} IN
    IF ~f.zip \/ meta = {} THEN None
    ELSE LET e == f.entries[KthOf(meta, 1)] IN
         IF /\ e.valid
            /\ "mods" \in DOMAIN e.doc
            /\ e.doc.mods # <<>>
            /\ "version" \in DOMAIN e.doc.mods[1]
            /\ \A k \in 1..Len(e.doc.mods[1].version) : e.doc.mods[1].version[k] # "$"
         THEN e.doc.mods[1].version
         ELSE None

\* C6: after a rescan of a cache directory that exists, the Inventory has
\* one entry for each file under it whose name ends in .jar (letter case
\* aside), no entry for any other file, no two entries with the same path,
\* and each entry's version is the version its file declares, or None.
C6_InventoryIsArchives ==
    [][(RefreshModList /\ cache_dir \in DOMAIN disk) =>
         /\ InventoryPaths(mods') = ArchivePaths(disk, cache_dir)
         /\ \A i, j \in 1..Len(mods') :
               mods'[i].file_path = mods'[j].file_path => i = j
         /\ \A i \in 1..Len(mods') :
               mods'[i].version = DeclaredVersion(FileAt(disk, mods'[i].file_path))]_vars

\* C6's case: a rescan has listed two archives, one with its declared
\* version and one without a metadata entry, next to a file that is no
\* archive
C6_Witness ==
    /\ status_var.kind \in {"loaded", "warning"}
    /\ max_cache_size > 0
    /\ Len(mods) = 2
    /\ \E i, j \in 1..2 :
          /\ mods[i].version = <<"1", ".", "2">>
          /\ mods[j].version = None
          /\ \A k \in 1..Len(FileAt(disk, mods[j].file_path).entries) :
                ~IsMetadata(FileAt(disk, mods[j].file_path).entries[k].name)
    /\ \E p \in AllPaths(disk) : Under(p.dir, cache_dir) /\ p \notin InventoryPaths(mods)

\* C7 as claimed: when on_save_config is given a size cap that is no
\* number and shows the error, cache_dir and max_cache_size are what they
\* were before the call, the settings file is not rewritten, and the
\* Inventory and the display are not rebuilt.
C7_InvalidSaveChangesNothing ==
    [][\A d \in CacheDirInputs, t \in MaxCacheInputs :
         (strip(t) # <<>> /\ int_raises(t) /\ OnSaveConfigWith(d, t)) =>
            /\ messagebox'.title = "ValueError"
            /\ cache_dir' = cache_dir
            /\ max_cache_size' = max_cache_size
            /\ config_file' = config_file
            /\ mods' = mods
            /\ mod_tree' = mod_tree]_vars

\* C8 as claimed: when the handler of an import, an export, an export as
\* archive or a deletion has returned, the Inventory is the set of archive
\* files under the cache directory.
C8_InventoryFreshAfterBulk ==
    [][(ExportMods \/ ExportModsAsZip \/ DeleteSelectedMods \/ ImportMods) =>
         InventoryPaths(mods') = ArchivePaths(disk', cache_dir')]_vars

\* floor(b / 1024^k) of a byte count
DivPow(b, k) == IF k >= Len(b) THEN BigZero ELSE SubSeq(b, k + 1, Len(b))

\* The smallest k in 0..4 with floor(b / 1024^k) < 1024, or 4
UnitIndexFor(b) ==
    LET small == {k \in 0..4 : BigLt(DivPow(b, k), BigOf(1024))}
    IN  IF small = {} THEN 4 ELSE KthOf(small, 1)

UnitIndex(shown) == CHOOSE k \in 0..4 : <<"B", "KB", "MB", "GB", "TB">>[k + 1] = shown.unit

\* C9: format_size(b) shows the magnitude floor(b / 1024^k) with the k-th
\* of the units B, KB, MB, GB, TB, for the smallest k in 0..4 that makes
\* the magnitude less than 1024, or k = 4 if none does; and of two byte
\* counts the greater never gets the smaller unit.
\* (Every step of SpecFormat is one call; fmt_out is what was shown for
\* fmt_arg.)
C9_FormatSizeUnits ==
    [][  LET k == UnitIndexFor(fmt_arg') IN
         /\ fmt_out'.unit = <<"B", "KB", "MB", "GB", "TB">>[k + 1]
         /\ fmt_out'.num = DivPow(fmt_arg', k)
         /\ BigLe(fmt_arg, fmt_arg') => UnitIndex(fmt_out) <= UnitIndex(fmt_out')]_vars

\* C9's case: a byte count of 1024^5 or more, shown in TB with a magnitude
\* of 1024 or more
C9_Witness ==
    /\ Len(fmt_arg) >= 6
    /\ fmt_out.unit = "TB"
    /\ BigLe(BigOf(1024), fmt_out.num)

\* C11 as claimed: in every reachable state each entry of selected_mods is
\* an entry of the Inventory: self.mods lists its path.
C11_SelectionWithinInventory ==
    InventoryPaths(selected_mods) \subseteq InventoryPaths(mods)

\* C12 as claimed: when import_mods, delete_selected_mods or on_save_config
\* has ended with a rescan in which max_cache_size > 0 and the total size of
\* the files under the cache directory exceeds the cap, the status shown
\* once the handler has returned is the budget warning.
C12_WarningStaysSurfaced ==
    [][(/\ max_cache_size' > 0
        /\ cache_dir' \in DOMAIN disk'
        /\ BigLt(BigOf(max_cache_size' * 1024 * 1024),
                 TotalBytes(disk', cache_dir'))
        /\ messagebox'.title # "ValueError"
        /\ (OnSaveConfig \/ DeleteSelectedMods \/ ImportMods))
       => status_var'.kind = "warning"]_vars

====
